---- MODULE Spec2Model ----
(***************************************************************************)
(* Model of the iFunny chat client: the opcode dispatcher of               *)
(* ifunny/client/_handler.py (Handler) and the parts of                    *)
(* ifunny/client/_client.py (Client) it calls into or that allocate        *)
(* request ids.                                                            *)
(*                                                                         *)
(* Text is modelled as a sequence of one-character strings; a JSON         *)
(* document inside a raw frame is one token [json |-> value].  Python's    *)
(* None is the string "None".  An exception is the name of its class.      *)
(***************************************************************************)
EXTENDS Integers, Sequences, FiniteSets, TLC

VARIABLES
    events,                 \* Handler.events: name -> registered callable (None = no binding)
    commands,               \* Client.commands: the names of the registered chat commands
    prefix,                 \* Client.__prefix: a set (value), a str (text) or a callable returning value
    sendbird_session_key,   \* Client.sendbird_session_key
    connected,              \* Client.socket.connected
    sent,                   \* every text handed to Client.socket.send, in order
    adds,                   \* number of registrations made so far (bounded by MaxAdds)
    frame,                  \* the raw text of the frame Handler.resolve was last called with
    trace,                  \* what that call of resolve did: lookups, calls, commands, sends
    raised,                 \* the exception that left that call of resolve (None = it returned)
    sendbird_req_id,        \* Client.__sendbird_req_id
    sendbird_lock,          \* Client.__sendbird_lock: the thread holding it, 0 when free
    pc,                     \* per thread: its position inside Client.next_req_id
    reg,                    \* per thread: the value it loaded for the increment
    returned,               \* per thread: the values next_req_id has returned to it, in order
    latest,                 \* per event name: the callable most recently registered under it
    active,                 \* Client.socket.active
    messenger_token,        \* Client.__messenger_token
    account,                \* Client._account_data_payload: <<>> for None, else <<payload>>
    _update,                \* Client._update
    authenticated,          \* Client.authenticated
    token,                  \* Client.__token
    config,                 \* Client.__config: key -> value (None = no entry)
    file,                   \* the content of the cache file config.json
    op,                     \* the client operation last called, with its arguments
    calls,                  \* what that operation did: REST requests, socket calls
    err,                    \* the exception that left that operation (None = it returned)
    backend,                \* the pages the paginated endpoint serves
    gens,                   \* the sequences the paginated accessor has returned so far
    config_lock,            \* Client.__config_lock: the thread holding it, 0 when free
    updating,               \* per thread: where it is in changing the config and rewriting the file
    writers,                \* the threads that have the cache file open for writing
    torn                    \* the cache file holds an unfinished JSON text

vars == <<events, commands, prefix, sendbird_session_key, connected, sent, adds,
          frame, trace, raised, sendbird_req_id, sendbird_lock, pc, reg, returned,
          latest, active, messenger_token, account, _update, authenticated, token,
          config, file, op, calls, err, backend, gens,
          config_lock, updating, writers, torn>>

handlerVars == <<events, commands, prefix, sendbird_session_key, connected, sent, adds,
                 frame, trace, raised, latest>>

chatVars == <<active, messenger_token, account, _update>>

loginVars == <<authenticated, token, config, file>>

opVars == <<op, calls, err>>

pageVars == <<backend, gens>>

cacheVars == <<config_lock, updating, writers, torn>>

threadVars == <<sendbird_req_id, sendbird_lock, pc, reg, returned>>

None == "None"

\* ---------------------------------------------------------------- bounds

MaxAdds == 2        \* registrations (Handler.add / Client.event / Client.command) per run
NumThreads == 2     \* threads reading Client.next_req_id
MaxCalls == 2       \* reads of next_req_id per thread

\* ---------------------------------------------------------------- text

Ch(c) == [ch |-> c]

Text(s) == [i \in 1..Len(s) |-> Ch(s[i])]

\* Python slices data[:n] and data[n:]
Take(s, n) == SubSeq(s, 1, IF Len(s) < n THEN Len(s) ELSE n)

Drop(s, n) == SubSeq(s, n + 1, Len(s))

\* str.startswith
StartsWith(s, p) == Len(p) <= Len(s) /\ SubSeq(s, 1, Len(p)) = p

\* index of the first separator in s, 0 when there is none
RECURSIVE Find(_, _, _)
Find(s, sep, i) ==
    IF i > Len(s) THEN 0
    ELSE IF s[i] = sep THEN i
    ELSE Find(s, sep, i + 1)

\* str.split(sep)
RECURSIVE Split(_, _)
Split(s, sep) ==
    LET i == Find(s, sep, 1)
    IN  IF i = 0 THEN <<s>>
        ELSE <<SubSeq(s, 1, i - 1)>> \o Split(Drop(s, i), sep)

\* json.loads: the text must be exactly one JSON document
JsonValid(text) == Len(text) = 1 /\ "json" \in DOMAIN text[1]

JsonLoads(text) == text[1].json

\* json.dumps followed by the f-string of _on_ping: opcode, document, newline
JsonDumps(value) == <<[json |-> value]>>

\* ---------------------------------------------------------------- names

EventNames ==
    { "on_message", "on_channel_update", "on_invite", "on_invite_broadcast",
      "on_user_join", "on_user_exit", "on_ping", "on_connect", "on_default" }

\* the application callables that get registered
Callables == {"f1"}

PING == Text(<<"P", "I", "N", "G">>)
PONG == Text(<<"P", "O", "N", "G">>)
MESG == Text(<<"M", "E", "S", "G">>)
LOGI == Text(<<"L", "O", "G", "I">>)
SYEV == Text(<<"S", "Y", "E", "V">>)

\* Client.nick and Client.id of the logged-in account
nick == "robot"

id == "u1"

\* ---------------------------------------------------------------- Handler

\* The state one call of resolve works on and what it has done so far.
Enter ==
    [connected |-> connected, key |-> sendbird_session_key, raised |-> None, sent |-> sent,
     trace |-> <<>>]

Raise(st, exc) == [st EXCEPT !.raised = exc]

Log(st, entry) == [st EXCEPT !.trace = Append(@, entry)]

\* CallHook as it would be if the call were wrapped in try/except
CallHook_swallows(st, name, args, bad) ==
    Log(st, [args |-> args, fn |-> events[name], name |-> name, raises |-> (bad = name),
             t |-> "call"])

\* A call of an application callable bound under `name`; `bad` names the binding
\* whose callable raises during this frame (None: none does).
CallHook(st, name, args, bad) ==
    LET s1 == Log(st, [args |-> args, fn |-> events[name], name |-> name,
                       raises |-> (bad = name), t |-> "call"])
    IN  IF bad = name THEN Raise(s1, "HookError") ELSE s1

\* a Python tuple passed around as one value
Tuple(items) == [items |-> items, type |-> "tuple"]

\* Handler._default_event(*args): on_default, when bound, gets the tuple as ONE argument
_default_event(st, args, bad) ==
    LET exec == events["on_default"]
    IN  IF exec # None THEN CallHook(st, "on_default", <<Tuple(args)>>, bad) ELSE st

\* Handler.get_ev(key): the bound callable, else _default_event
get_ev(key) ==
    IF events[key] # None THEN [fn |-> "event", name |-> key]
    ELSE [fn |-> "_default_event"]

\* The idiom self.get_ev(key)(*args)
Fire(st, key, args, bad) ==
    LET f  == get_ev(key)
        s1 == Log(st, [args |-> args, name |-> key, t |-> "get_ev"])
    IN  IF f.fn = "event" THEN CallHook(s1, f.name, args, bad)
        ELSE _default_event(s1, args, bad)

\* _default_match as it would be if unmatched opcodes went to the default event
_default_match_to_default_event(st, key, data) == _default_event(st, <<key, data>>, None)

\* Handler._default_match
_default_match(st, key, data) == st

\* Handler._on_connect
_on_connect(st, key, data, bad) ==
    IF "key" \notin DOMAIN data THEN Raise(st, "KeyError")
    ELSE LET s1 == [st EXCEPT !.key = data.key]
             s2 == [s1 EXCEPT !.connected = TRUE]
         IN  Fire(s2, "on_connect", <<data>>, bad)

\* Socket.send (ifunny/client/_sendbird.py): hands the text to the transport
SocketSend(st, text) ==
    Log([st EXCEPT !.sent = Append(@, text)], [t |-> "send", text |-> text])

\* _on_ping as it would be if a keepalive marked the socket connected
_on_ping_marks_connected(st, key, data, bad, now) ==
    LET s1 == Fire([st EXCEPT !.connected = TRUE], "on_ping", <<data>>, bad)
    IN  IF s1.raised # None THEN s1 ELSE Raise(s1, "NameError")

\* The names bound at module level of _handler.py (its imports and classes) and
\* the names local to _on_ping.
HandlerGlobals ==
    {"json", "requests", "time", "User", "Message", "ChannelInvite", "Channel", "Handler", "Event"}

OnPingLocals == {"self", "key", "data", "timestamp"}

\* Handler._on_ping.  Its last line reads the name `client` (not self.client):
\* a name bound nowhere raises NameError before socket.send is called.
_on_ping(st, key, data, bad, now) ==
    LET s1 == Fire(st, "on_ping", <<data>>, bad)
    IN  IF s1.raised # None THEN s1
        ELSE IF "id" \notin DOMAIN data THEN Raise(s1, "KeyError")
        ELSE LET timestamp == now
                 pong == PONG \o JsonDumps([id |-> data.id, sts |-> timestamp, ts |-> timestamp])
                              \o Text(<<"\n">>)
             IN  IF "client" \notin (OnPingLocals \union HandlerGlobals)
                 THEN Raise(s1, "NameError")
                 ELSE SocketSend(s1, pong)

\* ---------------------------------------------------------------- commands

\* Client.prefix (the property getter): _pref is the value, or the result of the
\* callable; the set that is returned is built from self.__prefix itself.
PrefixGet ==
    LET _pref == IF prefix.kind = "callable" THEN [kind |-> "set"]
                 ELSE [kind |-> prefix.kind]
    IN  IF _pref.kind \in {"set", "tuple", "list", "str"}
        THEN IF prefix.kind = "callable"
             THEN [raised |-> "TypeError", value |-> {}]       \* set(<function>)
             ELSE IF prefix.kind = "str"
             THEN [raised |-> None,                           \* set("ab") = {"a", "b"}
                   value |-> {<<prefix.text[i]>> : i \in 1..Len(prefix.text)}]
             ELSE [raised |-> None, value |-> prefix.value]
        ELSE [raised |-> "TypeError", value |-> {}]

\* The orders in which a Python set may be iterated
Orders(S) == {o \in [1..Cardinality(S) -> S] : \A i, j \in 1..Cardinality(S) : o[i] = o[j] => i = j}

\* Message.content (ifunny/objects): the text of the chat message
Content(message) == message.data.message

\* A call of a chat command (a Command, or Defaults.default)
CallCommand(st, command, message, args, bad) ==
    LET s1 == Log(st, [args |-> args, cmd |-> command.cmd, fn |-> command.fn,
                       message |-> message, t |-> "command"])
    IN  IF bad = "command" THEN Raise(s1, "CommandError") ELSE s1

\* The loop of Client.resolve_command over the prefixes, in iteration order
RECURSIVE ForPrefix(_, _, _, _, _, _)
ForPrefix(st, order, first, args, message, bad) ==
    IF order = <<>> THEN st
    ELSE IF StartsWith(first, Head(order))
    THEN LET name == Drop(first, Len(Head(order)))
         IN  CallCommand(st, [cmd |-> name,
                              fn |-> IF name \in commands THEN "Command" ELSE "Defaults.default"],
                         message, args, bad)
    ELSE ForPrefix(st, Tail(order), first, args, message, bad)

\* Client.resolve_command
resolve_command(st, message, bad, order) ==
    LET s1     == Log(st, [message |-> message, t |-> "resolve_command"])
        parsed == Split(Content(message), " ")
        first  == parsed[1]
        args   == Tail(parsed)
        pref   == PrefixGet
    IN  IF pref.raised # None THEN Raise(s1, pref.raised)
        ELSE ForPrefix(s1, order, first, args, message, bad)

\* ---------------------------------------------------------------- MESG, SYEV

\* Message(id, channel_url, client, data = data) of ifunny/objects
Message(msg_id, channel_url, data) ==
    [channel_url |-> channel_url, data |-> data, id |-> msg_id, type |-> "Message"]

Channel(channel_url) == [channel_url |-> channel_url, type |-> "Channel"]

User(user_id) == [id |-> user_id, type |-> "User"]

ChannelInvite(update) == [data |-> update, type |-> "ChannelInvite"]

\* ChannelInvite.invitees (ifunny/objects): the users the invite names
Invitees(invite) == {User(u) : u \in invite.data.data.invitees}

\* _on_message as it would be if the sender were compared with the client's id
_on_message_compares_id(st, key, data, bad, order) ==
    IF data.user.name = id THEN st
    ELSE LET message == Message(data.msg_id, data.channel_url, data)
             s1 == resolve_command(st, message, bad, order)
         IN  IF s1.raised # None THEN s1
             ELSE Fire(s1, "on_message", <<message>>, bad)

\* Handler._on_message
_on_message(st, key, data, bad, order) ==
    IF data.user.name = nick THEN st
    ELSE LET message == Message(data.msg_id, data.channel_url, data)
             s1 == resolve_command(st, message, bad, order)
         IN  IF s1.raised # None THEN s1
             ELSE Fire(s1, "on_message", <<message>>, bad)

\* _on_invite with the two branches exchanged
_on_invite_swapped(st, update, bad) ==
    LET invite == ChannelInvite(update)
    IN  IF User(id) \in Invitees(invite)
        THEN Fire(st, "on_invite_broadcast", <<invite>>, bad)
        ELSE Fire(st, "on_invite", <<invite>>, bad)

\* Handler._on_invite
_on_invite(st, update, bad) ==
    LET invite == ChannelInvite(update)
    IN  IF User(id) \in Invitees(invite)
        THEN Fire(st, "on_invite", <<invite>>, bad)
        ELSE Fire(st, "on_invite_broadcast", <<invite>>, bad)

\* Handler._on_user_exit
_on_user_exit(st, data, bad) ==
    LET channel == Channel(data.channel_url)
        user == User(data.data.user_id)
    IN  Fire(st, "on_user_exit", <<user, channel>>, bad)

\* Handler._on_user_join
_on_user_join(st, data, bad) ==
    LET channel == Channel(data.channel_url)
        user == User(data.data.user_id)
    IN  Fire(st, "on_user_join", <<user, channel>>, bad)

\* channel_update_codes with the join and exit codes exchanged
channel_update_codes_swapped(cat) ==
    CASE cat = 10020 -> "_on_invite"
      [] cat = 10000 -> "_on_user_exit"
      [] cat = 10001 -> "_on_user_join"
      [] OTHER -> "_default_event"

\* Handler.channel_update_codes
channel_update_codes(cat) ==
    CASE cat = 10020 -> "_on_invite"
      [] cat = 10001 -> "_on_user_exit"
      [] cat = 10000 -> "_on_user_join"
      [] OTHER -> "_default_event"

\* _on_channel_update as it would be if the table were indexed with [], not .get
_on_channel_update_strict(st, key, data, bad) ==
    LET channel == Channel(data.channel_url)
        code == channel_update_codes(data.cat)
        s1 == CASE code = "_on_invite"    -> _on_invite(st, data, bad)
                [] code = "_on_user_exit" -> _on_user_exit(st, data, bad)
                [] code = "_on_user_join" -> _on_user_join(st, data, bad)
                [] OTHER                  -> Raise(st, "KeyError")
    IN  IF s1.raised # None THEN s1
        ELSE Fire(s1, "on_channel_update", <<channel>>, bad)

\* Handler._on_channel_update
_on_channel_update(st, key, data, bad) ==
    LET channel == Channel(data.channel_url)
        code == channel_update_codes(data.cat)
        s1 == CASE code = "_on_invite"    -> _on_invite(st, data, bad)
                [] code = "_on_user_exit" -> _on_user_exit(st, data, bad)
                [] code = "_on_user_join" -> _on_user_join(st, data, bad)
                [] OTHER                  -> _default_event(st, <<data>>, bad)
    IN  IF s1.raised # None THEN s1
        ELSE Fire(s1, "on_channel_update", <<channel>>, bad)

\* Handler.matches
matches(key) ==
    CASE key = PING -> "_on_ping"
      [] key = MESG -> "_on_message"
      [] key = LOGI -> "_on_connect"
      [] key = SYEV -> "_on_channel_update"
      [] OTHER -> "_default_match"

\* Handler.resolve
resolve(st, raw, bad, order, now) ==
    LET key == Take(raw, 4)
        text == Drop(raw, 4)
    IN  IF ~JsonValid(text) THEN Raise(st, "JSONDecodeError")
        ELSE LET data == JsonLoads(text)
                 m == matches(key)
             IN  CASE m = "_on_ping"           -> _on_ping(st, key, data, bad, now)
                   [] m = "_on_message"        -> _on_message(st, key, data, bad, order)
                   [] m = "_on_connect"        -> _on_connect(st, key, data, bad)
                   [] m = "_on_channel_update" -> _on_channel_update(st, key, data, bad)
                   [] OTHER                    -> _default_match(st, key, data)

\* ---------------------------------------------------------------- inputs

help == <<"h", "e", "l", "p">>

CommandNames == {help, <<"g", "o">>}

\* the prefix argument of Client(...): the default {""}, another set, a callable
PrefixOptions ==
    { [kind |-> "set", text |-> <<>>, value |-> {<<>>}],
      [kind |-> "set", text |-> <<>>, value |-> {<<"!">>}],
      [kind |-> "callable", text |-> <<>>, value |-> {<<"!">>}] }

Contents ==
    { <<"!", "h", "e", "l", "p">>, <<"h", "i">>, <<"!", "g", "o", " ", "x">> }

LogiPayloads == { [key |-> "k1"], [key |-> None], [error |-> TRUE] }

PingPayloads == { [id |-> i] : i \in {1, 2} }

Mesg(n, c) == [channel_url |-> "c1", message |-> c, msg_id |-> 7, user |-> [name |-> n]]

MesgPayloads == {Mesg("bob", c) : c \in Contents} \cup {Mesg(nick, <<"!", "h", "e", "l", "p">>)}

Syev(c, inv) == [cat |-> c, channel_url |-> "c1", data |-> [invitees |-> inv, user_id |-> "u2"]]

SyevPayloads ==
    {Syev(10020, {"u1", "u3"}), Syev(10020, {"u3"})}
        \cup {Syev(c, {}) : c \in {10000, 10001, 10999}}

Json(p) == <<[json |-> p]>>

\* raw frames as the socket delivers them: the four known opcodes, an unknown
\* opcode, and malformed text (too short, or no JSON after the opcode)
WellFormed ==
         {LOGI \o Json(p) : p \in LogiPayloads}
    \cup {PING \o Json(p) : p \in PingPayloads}
    \cup {MESG \o Json(p) : p \in MesgPayloads}
    \cup {SYEV \o Json(p) : p \in SyevPayloads}
    \cup {Text(<<"R", "E", "A", "D">>) \o Json([channel_id |-> 3])}

Malformed ==
    { Text(<<"P", "I", "N">>), MESG \o Text(<<"{">>), LOGI }

Frames == WellFormed \cup Malformed

\* what time() * 1000 may read while raw is handled (only _on_ping reads it)
Clock(raw) == IF Take(raw, 4) = PING THEN {1000, 1001} ELSE {1000}

\* the bindings whose callable is reached when none raises: the only ones whose
\* raising can change what the frame does
Reached(raw, order, now) ==
    LET t == resolve(Enter, raw, None, order, now).trace
    IN  {t[i].name : i \in {j \in 1..Len(t) : t[j].t = "call"}}
        \cup {"command" : i \in {j \in 1..Len(t) : t[j].t = "command"}}

\* ---------------------------------------------------------------- actions

\* Client.__init__ (with Handler.__init__): prefix is the constructor's argument,
\* seed what int(time.time() * 1000 + random() * 1000000) evaluates to
Construct(prefixes, seeds) ==
    /\ events = [n \in EventNames |-> None]
    /\ commands = {help}
    /\ prefix \in prefixes
    /\ sendbird_session_key = None
    /\ connected = FALSE
    /\ sent = <<>>
    /\ adds = 0
    /\ frame = <<>>
    /\ trace = <<>>
    /\ raised = None
    /\ sendbird_req_id \in seeds
    /\ sendbird_lock = 0
    /\ pc = [t \in 1..NumThreads |-> "idle"]
    /\ reg = [t \in 1..NumThreads |-> 0]
    /\ returned = [t \in 1..NumThreads |-> <<>>]
    /\ latest = [n \in EventNames |-> None]
    /\ active = FALSE
    /\ messenger_token = None
    /\ account = <<>>
    /\ _update = FALSE
    /\ authenticated = FALSE
    /\ token = None
    /\ op = <<>>
    /\ calls = <<>>
    /\ err = None
    /\ gens = <<>>
    /\ config_lock = 0
    /\ updating = [t \in 1..NumThreads |-> [at |-> "idle", set |-> <<>>, size |-> 0, todo |-> <<>>]]
    /\ writers = {}
    /\ torn = FALSE

Seeds == {1000, 2000}

\* the keys of the cache: "login_token" and f"{email}_token"
Key(name) == <<name, "_token">>

Emails == {"a@x", "b@x"}

ConfigKeys == {Key("login")} \cup {Key(e) : e \in Emails}

EmptyConfig == [k \in ConfigKeys |-> None]

\* the end of Client.__init__: the cache file is loaded; when there is none the
\* config is empty and is written out
LoadCache(caches) ==
    /\ config \in caches
    /\ file = config

\* the paginated endpoint behind the accessors
Serve(backends) == backend \in backends

Init == Construct(PrefixOptions, {1000}) /\ LoadCache({EmptyConfig}) /\ Serve({<<>>})

\* the socket delivers raw to Handler.resolve
Resolve(raw) ==
    \E order \in Orders(PrefixGet.value), now \in Clock(raw) :
      \E bad \in {None} \cup Reached(raw, order, now) :
        LET r == resolve(Enter, raw, bad, order, now)
        IN  /\ sendbird_session_key' = r.key
            /\ connected' = r.connected
            /\ sent' = r.sent
            /\ frame' = <<raw>>
            /\ trace' = r.trace
            /\ raised' = r.raised
            /\ UNCHANGED <<events, commands, prefix, adds, latest, threadVars,
                           chatVars, loginVars, opVars, pageVars, cacheVars>>

Forget == frame' = <<>> /\ trace' = <<>> /\ raised' = None

\* Handler.add(name)(method)
Add(name, method) ==
    /\ adds < MaxAdds
    /\ adds' = adds + 1
    /\ events' = [events EXCEPT ![name] = method]
    /\ latest' = [latest EXCEPT ![name] = method]
    /\ Forget
    /\ UNCHANGED <<commands, prefix, sendbird_session_key, connected, sent, threadVars,
                   chatVars, loginVars, opVars, pageVars, cacheVars>>

\* Client.command(name)(method)
Command(name) ==
    /\ adds < MaxAdds
    /\ adds' = adds + 1
    /\ commands' = commands \cup {name}
    /\ Forget
    /\ UNCHANGED <<events, prefix, sendbird_session_key, connected, sent, latest, threadVars,
                   chatVars, loginVars, opVars, pageVars, cacheVars>>

Next ==
    \/ \E raw \in Frames : Resolve(raw)
    \/ \E name \in EventNames, method \in Callables : Add(name, method)
    \/ \E name \in CommandNames : Command(name)

Spec == Init /\ [][Next]_vars

\* ---------------------------------------------------------------- next_req_id

Threads == 1..NumThreads

\* a thread reads the property Client.next_req_id
Call(t) ==
    /\ pc[t] = "idle"
    /\ Len(returned[t]) < MaxCalls
    /\ pc' = [pc EXCEPT ![t] = "acquire"]
    /\ UNCHANGED <<sendbird_req_id, sendbird_lock, reg, returned, handlerVars,
                   chatVars, loginVars, opVars, pageVars, cacheVars>>

\* self.__sendbird_lock.acquire()
Acquire(t) ==
    /\ pc[t] = "acquire"
    /\ sendbird_lock = 0
    /\ sendbird_lock' = t
    /\ pc' = [pc EXCEPT ![t] = "load"]
    /\ UNCHANGED <<sendbird_req_id, reg, returned, handlerVars,
                   chatVars, loginVars, opVars, pageVars, cacheVars>>

\* self.__sendbird_req_id += 1: the load ...
Load(t) ==
    /\ pc[t] = "load"
    /\ reg' = [reg EXCEPT ![t] = sendbird_req_id]
    /\ pc' = [pc EXCEPT ![t] = "store"]
    /\ UNCHANGED <<sendbird_req_id, sendbird_lock, returned, handlerVars,
                   chatVars, loginVars, opVars, pageVars, cacheVars>>

\* ... and the store of the sum
Store(t) ==
    /\ pc[t] = "store"
    /\ sendbird_req_id' = reg[t] + 1
    /\ pc' = [pc EXCEPT ![t] = "release"]
    /\ UNCHANGED <<sendbird_lock, reg, returned, handlerVars,
                   chatVars, loginVars, opVars, pageVars, cacheVars>>

\* self.__sendbird_lock.release()
Release(t) ==
    /\ pc[t] = "release"
    /\ sendbird_lock' = 0
    /\ pc' = [pc EXCEPT ![t] = "return"]
    /\ UNCHANGED <<sendbird_req_id, reg, returned, handlerVars,
                   chatVars, loginVars, opVars, pageVars, cacheVars>>

\* return self.__sendbird_req_id
Return(t) ==
    /\ pc[t] = "return"
    /\ returned' = [returned EXCEPT ![t] = Append(@, sendbird_req_id)]
    /\ pc' = [pc EXCEPT ![t] = "idle"]
    /\ UNCHANGED <<sendbird_req_id, sendbird_lock, reg, handlerVars,
                   chatVars, loginVars, opVars, pageVars, cacheVars>>

DefaultPrefix == [kind |-> "set", text |-> <<>>, value |-> {<<>>}]

InitReqId == Construct({DefaultPrefix}, Seeds) /\ LoadCache({EmptyConfig}) /\ Serve({<<>>})

NextReqId ==
    \E t \in Threads :
        \/ Call(t)
        \/ Acquire(t)
        \/ Load(t)
        \/ Store(t)
        \/ Release(t)
        \/ Return(t)

SpecReqId == InitReqId /\ [][NextReqId]_vars

\* ---------------------------------------------------------------- observing resolve

Resolved == frame # <<>>

Raw == frame[1]

Opcode == Take(Raw, 4)

Decodes == JsonValid(Drop(Raw, 4))

Payload == JsonLoads(Drop(Raw, 4))

\* the positions in the trace of the dispatcher's self.get_ev(name)(...)
Fired(name) == {i \in 1..Len(trace) : trace[i].t = "get_ev" /\ trace[i].name = name}

\* the positions of the calls of the callable bound under name
Called(name) == {i \in 1..Len(trace) : trace[i].t = "call" /\ trace[i].name = name}

Of(kind) == {i \in 1..Len(trace) : trace[i].t = kind}

HookFailed == raised \in {"HookError", "CommandError"}

\* ---------------------------------------------------------------- claims

\* C1: a PING frame with id x makes resolve hand exactly one PONG to the socket's send,
\* with the same id and with ts = sts; no other opcode makes it send a PONG.
\* (Stated for the frames whose on_ping hook does not raise.)
C1_PingAnsweredByOnePong ==
    (Resolved /\ Decodes /\ ~HookFailed) =>
        IF Opcode = PING
        THEN /\ Cardinality(Of("send")) = 1
             /\ \A i \in Of("send") :
                  /\ Take(trace[i].text, 4) = PONG
                  /\ LET pong == trace[i].text[5].json
                     IN  pong.id = Payload.id /\ pong.ts = pong.sts
        ELSE Of("send") = {}

\* C2: the values next_req_id has returned, to whichever thread, are pairwise distinct.
C2_ReqIdsDistinct ==
    \A t, u \in Threads : \A i \in 1..Len(returned[t]), j \in 1..Len(returned[u]) :
        (returned[t][i] = returned[u][j]) => (t = u /\ i = j)

\* C3: whenever socket.connected is true, sendbird_session_key is present (not None).
C3_ConnectedImpliesKey == connected => sendbird_session_key # None

\* C4: resolving a frame whose opcode is not LOGI leaves sendbird_session_key and
\* socket.connected as they were, and connected turns true only in a step that
\* resolves a LOGI frame.
C4_OnlyLogiChangesSession ==
    [][ /\ (frame' # <<>> /\ Take(frame'[1], 4) # LOGI) =>
              UNCHANGED <<sendbird_session_key, connected>>
        /\ (connected' /\ ~connected) =>
              (frame' # <<>> /\ Take(frame'[1], 4) = LOGI) ]_vars

\* a SYEV frame was resolved, and reached a hook, on a client a LOGI frame had connected
C4_Witness ==
    /\ Resolved /\ Opcode = SYEV /\ Of("call") # {}
    /\ connected /\ sendbird_session_key = "k1"

C6_MalformedIsSwallowed ==
    (Resolved /\ (Len(Raw) < 4 \/ ~Decodes)) => (raised = None /\ trace = <<>>)

\* C7: a MESG frame whose sender is the local user reaches neither on_message nor
\* resolve_command (nor any command).
C7_SelfMessageIgnored ==
    (Resolved /\ Decodes /\ Opcode = MESG /\ Payload.user.name = nick) =>
        /\ Fired("on_message") = {} /\ Called("on_message") = {}
        /\ Of("resolve_command") = {} /\ Of("command") = {}
        /\ raised = None

\* the local user's own "!help" was resolved with on_message bound
C7_Witness ==
    /\ Resolved /\ Decodes /\ Opcode = MESG /\ Payload.user.name = nick
    /\ events["on_message"] # None
    /\ StartsWith(Payload.message, <<"!">>)

\* C8: a MESG frame from someone else runs command resolution first and then fires
\* on_message exactly once, with the message, whether or not a command matched.
\* (Stated for the frames in which no application hook or command raises.)
C8_MessageDispatched ==
    (Resolved /\ Decodes /\ Opcode = MESG /\ Payload.user.name # nick /\ ~HookFailed) =>
        /\ Cardinality(Of("resolve_command")) = 1
        /\ Cardinality(Fired("on_message")) = 1
        /\ \A i \in Of("resolve_command"), j \in Fired("on_message") :
              i < j /\ trace[j].args = <<trace[i].message>>

\* C9: a SYEV frame with cat 10020 fires on_invite and not on_invite_broadcast when the
\* local user is among the invitees, and on_invite_broadcast and not on_invite when not.
C9_InviteRouting ==
    (Resolved /\ Decodes /\ Opcode = SYEV /\ Payload.cat = 10020) =>
        LET mine  == id \in Payload.data.invitees
            hit   == IF mine THEN "on_invite" ELSE "on_invite_broadcast"
            other == IF mine THEN "on_invite_broadcast" ELSE "on_invite"
        IN  /\ Cardinality(Fired(hit)) = 1
            /\ Fired(other) = {} /\ Called(other) = {}
            /\ Cardinality(Called(hit)) = IF events[hit] # None THEN 1 ELSE 0
            /\ \A i \in Fired(hit) : trace[i].args = <<ChannelInvite(Payload)>>

\* an invite naming the local user reached the bound on_invite while
\* on_invite_broadcast was bound as well
C9_Witness ==
    /\ Resolved /\ Decodes /\ Opcode = SYEV /\ Payload.cat = 10020
    /\ id \in Payload.data.invitees
    /\ Called("on_invite") # {}
    /\ events["on_invite_broadcast"] # None

SubHook(cat) ==
    CASE cat = 10000 -> {"on_user_join"}
      [] cat = 10001 -> {"on_user_exit"}
      [] cat = 10020 -> {"on_invite", "on_invite_broadcast"}

SubHooks == {"on_user_join", "on_user_exit", "on_invite", "on_invite_broadcast"}

\* the sub-hook of the frame's category is fired exactly once, first, with its
\* arguments, and no hook of another category is fired
SubHookFired ==
    /\ Len(trace) > 0 /\ trace[1].t = "get_ev" /\ trace[1].name \in SubHook(Payload.cat)
    /\ \A n \in SubHooks : Fired(n) \subseteq {1}
    /\ Payload.cat \in {10000, 10001} =>
          trace[1].args = <<User(Payload.data.user_id), Channel(Payload.channel_url)>>
    /\ \A n \in EventNames \ (SubHooks \cup {"on_channel_update", "on_default"}) :
          Fired(n) = {} /\ Called(n) = {}

\* on_channel_update(channel) is fired exactly once, after the sub-hook
ChannelUpdateFired ==
    /\ Cardinality(Fired("on_channel_update")) = 1
    /\ \A j \in Fired("on_channel_update") :
          j > 1 /\ trace[j].args = <<Channel(Payload.channel_url)>>

\* the callable reached by the sub-hook (the bound hook, or on_default in its place)
\* raised: its call is the last thing resolve did
SubHookRaised == raised = "HookError" /\ Len(trace) = 2 /\ trace[2].t = "call"

\* C10 as stated: a SYEV frame with cat 10020, 10000 or 10001 fires the sub-hook of
\* its category and afterwards on_channel_update(channel) exactly once.
C10_AlwaysChannelUpdate ==
    (Resolved /\ Decodes /\ Opcode = SYEV /\ Payload.cat \in {10020, 10000, 10001}) =>
        (SubHookFired /\ ChannelUpdateFired)

\* C10 (amended): such a frame fires the sub-hook of its category, first and exactly
\* once, and no hook of another category; when the callable reached by the sub-hook
\* returns, on_channel_update(channel) is fired exactly once after it; when it raises,
\* resolve raises and on_channel_update is not fired.
C10_SubHookThenChannelUpdate ==
    (Resolved /\ Decodes /\ Opcode = SYEV /\ Payload.cat \in {10020, 10000, 10001}) =>
        /\ SubHookFired
        /\ IF SubHookRaised
           THEN Fired("on_channel_update") = {} /\ Called("on_channel_update") = {}
           ELSE ChannelUpdateFired

\* a user-join frame reached the bound on_user_join and then the bound on_channel_update
C10_Witness ==
    /\ Resolved /\ Decodes /\ Opcode = SYEV /\ Payload.cat = 10000
    /\ Called("on_user_join") # {} /\ Called("on_channel_update") # {}
    /\ raised = None

\* the registry default took the sub-routing step of an unknown category: on_default,
\* when bound, was called first, with the tuple (data,) as its one argument
DefaultRouted ==
    IF events["on_default"] # None
    THEN /\ Len(trace) > 0 /\ trace[1].t = "call" /\ trace[1].name = "on_default"
         /\ trace[1].args = <<Tuple(<<Payload>>)>>
         /\ Called("on_default") \subseteq {1} \cup {j \in 1..Len(trace) : j > 2}
    ELSE Called("on_default") = {}

\* on_default, called for the sub-routing step, raised
DefaultRaised ==
    raised = "HookError" /\ Len(trace) = 1 /\ trace[1].t = "call" /\ trace[1].name = "on_default"

\* on_channel_update(channel) is fired exactly once
ChannelUpdateOnce ==
    /\ Cardinality(Fired("on_channel_update")) = 1
    /\ \A j \in Fired("on_channel_update") : trace[j].args = <<Channel(Payload.channel_url)>>

UnknownCategory ==
    Resolved /\ Decodes /\ Opcode = SYEV /\ Payload.cat \notin {10020, 10000, 10001}

\* C11 as stated: a SYEV frame of an unknown category raises no error (read here as: no
\* error of the dispatcher's own), fires none of the four sub-hooks, hands the sub-routing
\* step to the registry default only, and fires on_channel_update(channel) exactly once.
C11_UnknownCategoryAlwaysUpdates ==
    UnknownCategory =>
        /\ raised \in {None, "HookError"}
        /\ \A n \in SubHooks : Fired(n) = {} /\ Called(n) = {}
        /\ DefaultRouted
        /\ ChannelUpdateOnce

\* C11 (amended): such a frame raises no error of the dispatcher's own (only what an
\* application callable raises), fires none of the four sub-hooks and hands the
\* sub-routing step to the registry default only; when on_default, called for that step,
\* raises, on_channel_update is not fired; otherwise it is fired exactly once.
C11_UnknownCategoryUpdates ==
    UnknownCategory =>
        /\ raised \in {None, "HookError"}
        /\ \A n \in SubHooks : Fired(n) = {} /\ Called(n) = {}
        /\ DefaultRouted
        /\ IF DefaultRaised
           THEN Fired("on_channel_update") = {} /\ Called("on_channel_update") = {}
           ELSE ChannelUpdateOnce /\ (raised = None <=> \A i \in Of("call") : ~trace[i].raises)

\* a frame of category 10999 went to the bound on_default and then to the bound
\* on_channel_update
C11_Witness ==
    /\ UnknownCategory
    /\ Called("on_default") # {} /\ Called("on_channel_update") # {}
    /\ raised = None

\* C12: a hook fired under a name with no binding does not fail the lookup; on_default,
\* when bound, is called exactly once in its place with the arguments the hook would
\* have received (same number, same values); when on_default is not bound either,
\* nothing is called.
C12_DefaultGetsSameArguments ==
    Resolved =>
        \A i \in Of("get_ev") :
            events[trace[i].name] = None =>
                IF events["on_default"] # None
                THEN /\ i < Len(trace) /\ trace[i + 1].t = "call"
                     /\ trace[i + 1].name = "on_default"
                     /\ Len(trace[i + 1].args) = Len(trace[i].args)
                     /\ \A k \in 1..Len(trace[i].args) : trace[i + 1].args[k] = trace[i].args[k]
                ELSE i = Len(trace) \/ trace[i + 1].t # "call"

\* C20: an exception raised by an application hook leaves resolve (raised is that
\* exception), nothing of the frame runs after the call that raised, and what
\* _on_connect stored before its hook (session key, connected) stays stored.
C20_HookExceptionPropagates ==
    Resolved =>
        /\ \A i \in Of("call") : trace[i].raises => (raised = "HookError" /\ i = Len(trace))
        /\ raised = "HookError" =>
              (Len(trace) > 0 /\ trace[Len(trace)].t = "call" /\ trace[Len(trace)].raises)
        /\ (Decodes /\ Opcode = LOGI /\ raised = "HookError") =>
              (connected /\ sendbird_session_key = Payload.key)

\* the on_connect hook raised on a LOGI frame carrying the key k1
C20_Witness ==
    /\ Resolved /\ Decodes /\ Opcode = LOGI /\ raised = "HookError"
    /\ Called("on_connect") # {} /\ connected /\ sendbird_session_key = "k1"

\* ---------------------------------------------------------------- registration

\* Event(method, name): the object Client.event binds, wrapping the method
Event(method, name) == [f1 |-> "Event(f1)"][method]

\* Client.event as it would be if a name already bound kept its binding
event_keeps_binding(name, method) ==
    /\ adds < MaxAdds
    /\ adds' = adds + 1
    /\ events' = IF events[name] = None THEN [events EXCEPT ![name] = Event(method, name)]
                 ELSE events
    /\ latest' = [latest EXCEPT ![name] = Event(method, name)]
    /\ Forget
    /\ UNCHANGED <<commands, prefix, sendbird_session_key, connected, sent, threadVars,
                   chatVars, loginVars, opVars, pageVars, cacheVars>>

\* Client.event(name)(method)
event(name, method) ==
    /\ adds < MaxAdds
    /\ adds' = adds + 1
    /\ events' = [events EXCEPT ![name] = Event(method, name)]
    /\ latest' = [latest EXCEPT ![name] = Event(method, name)]
    /\ Forget
    /\ UNCHANGED <<commands, prefix, sendbird_session_key, connected, sent, threadVars,
                   chatVars, loginVars, opVars, pageVars, cacheVars>>

\* one frame of each kind
RegistryFrames ==
    { LOGI \o Json([key |-> "k1"]), PING \o Json([id |-> 1]),
      MESG \o Json(Mesg("bob", <<"!", "h", "e", "l", "p">>)),
      SYEV \o Json(Syev(10020, {"u1", "u3"})), SYEV \o Json(Syev(10000, {})),
      SYEV \o Json(Syev(10999, {})),
      Text(<<"R", "E", "A", "D">>) \o Json([channel_id |-> 3]), MESG \o Text(<<"{">>) }

NextRegistry ==
    \/ \E name \in EventNames, method \in Callables : Add(name, method)
    \/ \E name \in EventNames, method \in Callables : event(name, method)
    \/ \E raw \in RegistryFrames : Resolve(raw)

InitRegistry == Construct({DefaultPrefix}, {1000}) /\ LoadCache({EmptyConfig}) /\ Serve({<<>>})

SpecRegistry == InitRegistry /\ [][NextRegistry]_vars

\* C13: the callable bound to a name is the one most recently registered under it
\* (by Handler.add or Client.event), and resolving a frame leaves every binding as it was.
C13_LatestRegistrationBound ==
    /\ [](events = latest)
    /\ [][frame' # <<>> => events' = events]_vars

\* a name was registered twice, the second time through Client.event, and a frame then
\* reached the Event bound last
C13_Witness ==
    /\ adds = 2 /\ Cardinality({n \in EventNames : events[n] # None}) = 1
    /\ Resolved /\ \E i \in Of("call") : trace[i].fn = "Event(f1)"

\* ---------------------------------------------------------------- chat lifecycle

\* what GET {api}/account answers: .json() of the response
AccountResponses ==
    { [data |-> [messenger_token |-> "mt"]], [data |-> [messenger_token |-> None]],
      [error |-> "unauthorized"] }

GetAccount == [t |-> "GET", url |-> "/account"]

\* the client's state as one operation works on it, with what the operation did
Client ==
    [_update |-> _update, account |-> account, active |-> active, calls |-> <<>>,
     connected |-> connected, err |-> None, messenger_token |-> messenger_token]

\* Client.__account_data: the payload is fetched when there is none or _update is set
\* (account is <<>> for no payload, <<payload>> otherwise)
__account_data(c, resp) ==
    IF c._update \/ c.account = <<>>
    THEN LET got == [c EXCEPT !._update = FALSE, !.calls = Append(@, GetAccount)]
         IN  IF "data" \in DOMAIN resp THEN [got EXCEPT !.account = <<resp.data>>]
             ELSE [got EXCEPT !.err = "KeyError"]
    ELSE c

\* Client.messenger_token (getter): fetched from the account data and stored when absent
MessengerToken(c, resp) ==
    IF c.messenger_token = None
    THEN LET a == __account_data(c, resp)
         IN  IF a.err # None THEN a
             ELSE [a EXCEPT !.messenger_token = a.account[1].messenger_token]
    ELSE c

\* Socket.start (ifunny/client/_sendbird.py): opens the transport
SocketStart(c) == [c EXCEPT !.active = TRUE, !.calls = Append(@, [t |-> "socket.start"])]

\* Socket.stop (ifunny/client/_sendbird.py): closes the transport, whatever the state
SocketStop(c) ==
    [c EXCEPT !.active = FALSE, !.connected = FALSE, !.calls = Append(@, [t |-> "socket.stop"])]

\* the client after an operation, in the variables
Becomes(c, name) ==
    /\ active' = c.active
    /\ connected' = c.connected
    /\ messenger_token' = c.messenger_token
    /\ account' = c.account
    /\ _update' = c._update
    /\ op' = <<[name |-> name]>>
    /\ calls' = c.calls
    /\ err' = c.err
    /\ Forget
    /\ UNCHANGED <<events, commands, prefix, sendbird_session_key, sent, adds, latest,
                   threadVars, loginVars, pageVars, cacheVars>>

\* Client.start_chat as it would be without the check of socket.active
start_chat_unchecked(resp) ==
    LET g == MessengerToken(Client, resp)
    IN  Becomes(IF g.err # None THEN g
                ELSE IF g.messenger_token = None
                     THEN [__account_data(g, resp) EXCEPT !.err = "AttributeError"]
                     ELSE SocketStart(g),
                "start_chat")

\* Client.start_chat. `self.messenger_token = ...` assigns to a property that has no
\* setter: when the getter has left the token absent the assignment raises AttributeError.
start_chat(resp) ==
    IF active
    THEN Becomes([Client EXCEPT !.err = "ChatAlreadyActive"], "start_chat")
    ELSE LET g == MessengerToken(Client, resp)
         IN  Becomes(IF g.err # None THEN g
                     ELSE IF g.messenger_token = None
                          THEN [__account_data(g, resp) EXCEPT !.err = "AttributeError"]
                          ELSE SocketStart(g),
                     "start_chat")

\* Client.stop_chat as it would be if stopping required an active socket
stop_chat_requires_active ==
    Becomes(IF active THEN SocketStop(Client) ELSE [Client EXCEPT !.err = "ChatNotActive"],
            "stop_chat")

\* Client.stop_chat
stop_chat == Becomes(SocketStop(Client), "stop_chat")

\* Client.fresh
fresh == Becomes([Client EXCEPT !._update = TRUE], "fresh")

\* the frames the open transport hands to Handler.resolve
ChatFrames ==
    { LOGI \o Json([key |-> "k1"]), LOGI \o Json([key |-> None]),
      PING \o Json([id |-> 1]), MESG \o Json(Mesg("bob", <<"h", "i">>)) }

\* the transport's callback: frames arrive only while the transport is open
Deliver(raw) == active /\ Resolve(raw)

NextChat ==
    \/ \E resp \in AccountResponses : start_chat(resp)
    \/ stop_chat
    \/ fresh
    \/ \E raw \in ChatFrames : Deliver(raw)

InitChat == Construct({DefaultPrefix}, {1000}) /\ LoadCache({EmptyConfig}) /\ Serve({<<>>})

SpecChat == InitChat /\ [][NextChat]_vars

\* the step is a call of the client operation `name`
Did(name) == frame' = <<>> /\ op' = <<[name |-> name]>>

\* the state is the one a call of `name` has just left
Left(name) == frame = <<>> /\ op = <<[name |-> name]>>

sessionVars == <<sendbird_session_key, connected, sent>>

\* C14: start_chat while the socket is active raises ChatAlreadyActive and does nothing
\* else: no socket.start, no account fetch, chat and session state unchanged.
C14_StartWhileActiveRaises ==
    [][(active /\ Did("start_chat")) =>
         /\ err' = "ChatAlreadyActive"
         /\ calls' = <<>>
         /\ UNCHANGED <<chatVars, sessionVars>>]_vars

\* start_chat has just been refused on an active socket whose handshake is complete
C14_Witness ==
    Left("start_chat") /\ err = "ChatAlreadyActive" /\ active /\ connected

\* C15: stop_chat never raises and ends inactive and disconnected from every lifecycle
\* state; a second stop_chat right after the first does not raise and changes nothing.
C15_StopIdempotent ==
    [][Did("stop_chat") =>
         /\ err' = None /\ ~active' /\ ~connected'
         /\ Left("stop_chat") => UNCHANGED <<chatVars, sessionVars>>]_vars

\* stop_chat was called after a start (the token is held) and left the socket closed
C15_Witness ==
    Left("stop_chat") /\ err = None /\ ~active /\ messenger_token # None
        /\ sendbird_session_key # None

\* ---------------------------------------------------------------- login

\* status codes of GET {api}/account and of POST {api}/oauth2/token
GetStatuses == {200, 401}

PostStatuses == {200, 403, 500}

\* response.json()["access_token"] of a granted request
AccessTokens == {"t2", "t3"}

\* what the cache file may hold when the client is constructed
Caches ==
    { [k \in ConfigKeys |-> IF k \in held THEN (IF k = Key("login") THEN "basic" ELSE "t1")
                            ELSE None] : held \in SUBSET ConfigKeys }

\* requests.get(f"{api}/account", headers = self.headers)
Get(bearer, status) == [bearer |-> bearer, status |-> status, t |-> "GET", url |-> "/account"]

\* requests.post(f"{api}/oauth2/token", headers = Basic login_token, data = password grant)
Post(basic, email, status, access) ==
    [access |-> IF status = 200 THEN access ELSE None, basic |-> basic, status |-> status,
     t |-> "POST", url |-> "/oauth2/token", username |-> email]

\* the fields login works on, with what the call did
LoginClient ==
    [authenticated |-> authenticated, calls |-> <<>>, config |-> config, err |-> None,
     file |-> file, token |-> token]

\* Client.__update_config: the config is dumped to the cache file
__update_config(c) == [c EXCEPT !.file = c.config]

\* Client.__login_token: the Basic token of the config, generated and saved when absent
__login_token(c) ==
    IF c.config[Key("login")] # None THEN c
    ELSE __update_config([c EXCEPT !.config = [@ EXCEPT ![Key("login")] = "basic"]])

\* the client after login, in the variables
LoggedIn(c, email, force) ==
    /\ authenticated' = c.authenticated
    /\ token' = c.token
    /\ config' = c.config
    /\ file' = c.file
    /\ op' = <<[email |-> email, force |-> force, name |-> "login"]>>
    /\ calls' = c.calls
    /\ err' = c.err
    /\ Forget
    /\ UNCHANGED <<events, commands, prefix, sendbird_session_key, connected, sent, adds,
                   latest, threadVars, chatVars, pageVars, cacheVars>>

\* the password grant as it would be if the flag were set before the status is looked at
Grant_flag_first(c, email, first, second, access, again) ==
    LET b    == __login_token(c)
        auth == b.config[Key("login")]
        p    == [b EXCEPT !.calls = Append(@, Post(auth, email, first, access)),
                          !.authenticated = TRUE]
        q    == IF first \in again
                THEN [p EXCEPT !.calls = Append(@, Post(auth, email, second, access))]
                ELSE p
        last == IF first \in again THEN second ELSE first
    IN  IF last # 200 THEN [q EXCEPT !.err = "BadAPIResponse"]
        ELSE __update_config([q EXCEPT !.token = access, !.authenticated = TRUE,
                                       !.config = [@ EXCEPT ![Key(email)] = access]])

\* the password grant of Client.login, where `again` is the set of statuses of
\* a first response that are followed by a second request
Grant(c, email, first, second, access, again) ==
    LET b    == __login_token(c)
        auth == b.config[Key("login")]
        p    == [b EXCEPT !.calls = Append(@, Post(auth, email, first, access))]
        q    == IF first \in again
                THEN [p EXCEPT !.calls = Append(@, Post(auth, email, second, access))]
                ELSE p
        last == IF first \in again THEN second ELSE first
    IN  IF last # 200 THEN [q EXCEPT !.err = "BadAPIResponse"]
        ELSE __update_config([q EXCEPT !.token = access, !.authenticated = TRUE,
                                       !.config = [@ EXCEPT ![Key(email)] = access]])

Forbidden == {403}

Failed == PostStatuses \ {200}

\* Client.login as it would be if an accepted saved token did not end the call
login_without_return(email, force, get, first, second, access) ==
    LET c      == LoginClient
        cached == c.config[Key(email)]
        try    == ~force /\ cached # None
        g      == IF try THEN [c EXCEPT !.token = cached, !.calls = Append(@, Get(cached, get))]
                  ELSE c
    IN  LoggedIn(IF authenticated THEN [c EXCEPT !.err = "NameError"]
                 ELSE Grant(IF try /\ get = 200 THEN [g EXCEPT !.authenticated = TRUE] ELSE g,
                            email, first, second, access, Forbidden),
                 email, force)

\* Client.login as it would be if every failed grant were tried again
login_retries_failures(email, force, get, first, second, access) ==
    LET c      == LoginClient
        cached == c.config[Key(email)]
        try    == ~force /\ cached # None
        g      == IF try THEN [c EXCEPT !.token = cached, !.calls = Append(@, Get(cached, get))]
                  ELSE c
    IN  LoggedIn(IF authenticated THEN [c EXCEPT !.err = "NameError"]
                 ELSE IF try /\ get = 200 THEN [g EXCEPT !.authenticated = TRUE]
                 ELSE Grant(g, email, first, second, access, Failed),
                 email, force)

\* Client.login(email, password, force). AlreadyAuthenticated is not among the names the
\* module imports: the raise statement on an authenticated client raises NameError.
login(email, force, get, first, second, access) ==
    LET c      == LoginClient
        cached == c.config[Key(email)]
        try    == ~force /\ cached # None
        g      == IF try THEN [c EXCEPT !.token = cached, !.calls = Append(@, Get(cached, get))]
                  ELSE c
    IN  LoggedIn(IF authenticated THEN [c EXCEPT !.err = "NameError"]
                 ELSE IF try /\ get = 200 THEN [g EXCEPT !.authenticated = TRUE]
                 ELSE Grant(g, email, first, second, access, Forbidden),
                 email, force)

NextLogin ==
    \E email \in Emails, force \in BOOLEAN, get \in GetStatuses,
       first \in PostStatuses, second \in PostStatuses, access \in AccessTokens :
        login(email, force, get, first, second, access)

InitLogin == Construct({DefaultPrefix}, {1000}) /\ LoadCache(Caches) /\ Serve({<<>>})

SpecLogin == InitLogin /\ [][NextLogin]_vars

\* the step is a call of login
DidLogin == frame' = <<>> /\ op' # <<>> /\ op'[1].name = "login"

\* the state is the one a call of login has just left
LastLogin == frame = <<>> /\ op # <<>> /\ op[1].name = "login"

\* the requests of one kind among the calls of an operation
Requests(cs, kind) == {i \in DOMAIN cs : cs[i].t = kind}

\* the account endpoint accepted the saved token in the call
Accepted(cs) == \E i \in Requests(cs, "GET") : cs[i].status = 200

\* C16: login with force = false and a saved token the account endpoint accepts issues
\* no password-grant POST, ends authenticated and leaves the cache as it was.
C16_CachedLoginPostsNothing ==
    [][(DidLogin /\ ~op'[1].force /\ config[Key(op'[1].email)] # None /\ Accepted(calls')) =>
         /\ Requests(calls', "POST") = {}
         /\ authenticated'
         /\ UNCHANGED <<config, file>>]_vars

\* login has just returned on the saved token
C16_Witness ==
    /\ LastLogin /\ ~op[1].force /\ Accepted(calls) /\ err = None
    /\ authenticated /\ token = config[Key(op[1].email)]

\* C17: login on an authenticated client fails with AlreadyAuthenticated, issues no
\* password-grant POST and leaves the flag, the bearer token and the cache unchanged.
C17_SecondLoginAlreadyAuthenticated ==
    [][(authenticated /\ DidLogin) =>
         /\ err' = "AlreadyAuthenticated"
         /\ Requests(calls', "POST") = {}
         /\ UNCHANGED loginVars]_vars

Last(cs) == cs[Len(cs)]

\* C19: one login issues at most two POSTs, the second only after a first answered 403;
\* when the last answer is not 200 login raises BadAPIResponse, stays unauthenticated and
\* writes no "{email}_token" entry; when it is 200 login ends authenticated with the
\* access token saved under "{email}_token".
C19_GrantRetriesOnceOn403 ==
    [][DidLogin =>
         LET posts == Requests(calls', "POST")
             key   == Key(op'[1].email)
         IN  /\ Cardinality(posts) <= 2
             /\ Cardinality(posts) = 2 =>
                    \E i \in posts : (posts \ {i} # {} /\ \A j \in posts : i <= j)
                                     /\ calls'[i].status = 403
             /\ posts # {} =>
                    IF Last(calls').status # 200
                    THEN /\ err' = "BadAPIResponse"
                         /\ ~authenticated'
                         /\ config'[key] = config[key] /\ file'[key] = file[key]
                    ELSE /\ err' = None
                         /\ authenticated'
                         /\ token' = Last(calls').access
                         /\ config'[key] = Last(calls').access
                         /\ file'[key] = Last(calls').access]_vars

\* login was granted a token on the request it repeated after a 403
C19_Witness ==
    /\ LastLogin /\ Cardinality(Requests(calls, "POST")) = 2
    /\ authenticated /\ config[Key(op[1].email)] = Last(calls).access

\* login failed on a 403 answered twice
C19_WitnessRefused ==
    /\ LastLogin /\ Cardinality(Requests(calls, "POST")) = 2
    /\ err = "BadAPIResponse" /\ ~authenticated

\* ---------------------------------------------------------------- pagination

MaxPages == 3

MaxGens == 2

\* how many items a page may hold
PageSizes == {0, 2}

RECURSIVE Sum(_)
Sum(sizes) == IF sizes = <<>> THEN 0 ELSE Head(sizes) + Sum(Tail(sizes))

\* the pages of a backend: items are numbered in the backend's order, and every page but
\* the last carries the cursor of the page after it (<<>> is the absent cursor)
Pages(sizes) ==
    [i \in DOMAIN sizes |->
        [items |-> [j \in 1..sizes[i] |-> Sum(SubSeq(sizes, 1, i - 1)) + j],
         next  |-> IF i < Len(sizes) THEN <<i + 1>> ELSE <<>>]]

Backends ==
    UNION {{Pages(sizes) : sizes \in [1..k -> PageSizes]} : k \in 1..MaxPages}

\* the page the endpoint serves for a cursor
Served(next) == IF next = <<>> THEN backend[1] ELSE backend[next[1]]

\* Notification(item, client) of ifunny/objects
Notification(item) == [data |-> item, type |-> "Notification"]

\* _channels_paginated as it would be if the cursor were not sent to the endpoint
_channels_paginated_without_token(next, status) ==
    IF status # 200 THEN [err |-> "BadAPIResponse"]
    ELSE LET response == [channels |-> Served(<<>>).items, next |-> Served(<<>>).next]
         IN  [err |-> None,
              items |-> [i \in DOMAIN response.channels |-> Channel(response.channels[i])],
              paging |-> [next |-> response.next]]

\* Client._channels_paginated(next = next): one GET of my_group_channels with token = next
_channels_paginated(next, status) ==
    IF status # 200 THEN [err |-> "BadAPIResponse"]
    ELSE LET response == [channels |-> Served(next).items, next |-> Served(next).next]
         IN  [err |-> None,
              items |-> [i \in DOMAIN response.channels |-> Channel(response.channels[i])],
              paging |-> [next |-> response.next]]

\* paginated_data / paginated_format of ifunny/util/methods: one GET of a paginated
\* iFunny endpoint, its items and its paging cursors
paginated_data(next, status) ==
    IF status # 200 THEN [err |-> "BadAPIResponse"]
    ELSE [err |-> None, items |-> Served(next).items, paging |-> [next |-> Served(next).next]]

\* Client._notifications_paginated(next = next)
_notifications_paginated(next, status) ==
    LET data == paginated_data(next, status)
    IN  IF data.err # None THEN data
        ELSE [data EXCEPT !.items = [i \in DOMAIN data.items |-> Notification(data.items[i])]]

Accessors == {"notifications", "channels"}

\* the page-fetch function an accessor hands to paginated_generator
Fetch(kind, next, status) ==
    IF kind = "channels" THEN _channels_paginated(next, status)
    ELSE _notifications_paginated(next, status)

\* paginated_generator(fetch) of ifunny/util/methods: a new sequence, nothing fetched yet
\* (yielded and fetches record what the sequence has done)
paginated_generator(kind) ==
    [buffer |-> <<>>, cursor |-> <<>>, done |-> FALSE, err |-> None, fetches |-> 0,
     kind |-> kind, started |-> FALSE, yielded |-> <<>>]

\* one next() of the sequence: the next buffered item, or pages fetched until one has an
\* item or the cursor is absent; `bad` is the page whose GET fails in this call (0: none).
\* A call still fetching after `fuel` pages is one that never returns ("hang").
RECURSIVE Pull(_, _, _)
Pull(g, bad, fuel) ==
    IF g.buffer # <<>>
    THEN [g EXCEPT !.buffer = Tail(@), !.yielded = Append(@, Head(g.buffer))]
    ELSE IF g.started /\ g.cursor = <<>> THEN [g EXCEPT !.done = TRUE]
    ELSE IF fuel = 0 THEN [g EXCEPT !.err = "hang", !.done = TRUE]
    ELSE LET at   == IF g.cursor = <<>> THEN 1 ELSE g.cursor[1]
             page == Fetch(g.kind, g.cursor, IF at = bad THEN 500 ELSE 200)
         IN  IF page.err # None
             THEN [g EXCEPT !.err = page.err, !.done = TRUE, !.fetches = @ + 1]
             ELSE Pull([g EXCEPT !.started = TRUE, !.cursor = page.paging.next,
                                 !.buffer = page.items, !.fetches = @ + 1],
                       bad, fuel - 1)

\* an accessor was read: the sequences made (one for each of `kinds`) and the outcome,
\* in the variables
Accessed(name, kinds, raises) ==
    /\ Len(gens) < MaxGens
    /\ gens' = gens \o [i \in DOMAIN kinds |-> paginated_generator(kinds[i])]
    /\ op' = <<[name |-> name]>>
    /\ calls' = <<>>
    /\ err' = raises
    /\ Forget
    /\ UNCHANGED <<events, commands, prefix, sendbird_session_key, connected, sent, adds,
                   latest, threadVars, chatVars, loginVars, backend, cacheVars>>

\* Client.notifications
notifications == Accessed("notifications", <<"notifications">>, None)

\* Client.channels as it would be if it asked for a connected socket
channels_requires_connected ==
    IF ~connected
    THEN Accessed("channels", <<>>, "ChatNotActive")
    ELSE Accessed("channels", <<"channels">>, None)

\* Client.channels
channels ==
    IF sendbird_session_key = None
    THEN Accessed("channels", <<>>, "ChatNotActive")
    ELSE Accessed("channels", <<"channels">>, None)

\* next(generator) on the i-th sequence
NextItem(i, bad) ==
    /\ ~gens[i].done
    /\ gens' = [gens EXCEPT ![i] = Pull(@, bad, Len(backend) + 1)]
    /\ op' = <<[name |-> "next", of |-> i]>>
    /\ calls' = <<>>
    /\ err' = gens'[i].err
    /\ Forget
    /\ UNCHANGED <<events, commands, prefix, sendbird_session_key, connected, sent, adds,
                   latest, threadVars, chatVars, loginVars, backend, cacheVars>>

\* the handshake, which gives the client its session key
Handshake == sendbird_session_key = None /\ Resolve(LOGI \o Json([key |-> "k1"]))

NextPages ==
    \/ notifications
    \/ channels
    \/ \E i \in DOMAIN gens, bad \in 0..Len(backend) : NextItem(i, bad)
    \/ Handshake

InitPages == Construct({DefaultPrefix}, {1000}) /\ LoadCache({EmptyConfig}) /\ Serve(Backends)

SpecPages == InitPages /\ [][NextPages]_vars

RECURSIVE Flatten(_)
Flatten(pages) == IF pages = <<>> THEN <<>> ELSE Head(pages).items \o Flatten(Tail(pages))

\* every item of the backend, in page order and in-page order, as the accessor yields it
AllItems(kind) ==
    LET ids == Flatten(backend)
    IN  [i \in DOMAIN ids |-> IF kind = "channels" THEN Channel(ids[i]) ELSE Notification(ids[i])]

IsPrefix(a, b) == Len(a) <= Len(b) /\ a = SubSeq(b, 1, Len(a))

\* C18: a sequence returned by notifications or channels yields the backend's items in
\* page order and in-page order, each once; no next() fails to return, no page is fetched
\* twice, and a sequence no fetch has failed has yielded every item when it ends. Each
\* access gives a new sequence, and a step advances at most the one sequence it is for.
C18_PaginationYieldsAllInOrder ==
    /\ [](\A i \in DOMAIN gens :
            LET g == gens[i]
            IN  /\ g.err # "hang"
                /\ g.fetches <= Len(backend)
                /\ IsPrefix(g.yielded, AllItems(g.kind))
                /\ (g.done /\ g.err = None) => g.yielded = AllItems(g.kind))
    /\ [][/\ Len(gens') >= Len(gens)
          /\ \A i \in DOMAIN gens, j \in DOMAIN gens :
                (gens'[i] # gens[i] /\ i # j) => gens'[j] = gens[j]
          /\ \A i \in DOMAIN gens' \ DOMAIN gens : gens'[i].yielded = <<>>]_vars

\* three pages of two items: the first sequence has ended with all six while a second
\* sequence of the same accessor has yielded only the first
C18_Witness ==
    /\ Len(backend) = 3 /\ Len(Flatten(backend)) = 6
    /\ Len(gens) = 2 /\ gens[1].kind = "channels" /\ gens[2].kind = "channels"
    /\ gens[1].done /\ gens[1].err = None /\ Len(gens[1].yielded) = 6
    /\ Len(gens[2].yielded) = 1

\* ---------------------------------------------------------------- the bearer token

\* Client.headers: the Authorization header is sent when a bearer token is held
headers(c) == IF c.token # None THEN [Authorization |-> <<"Bearer", c.token>>] ELSE [x \in {} |-> x]

\* C23: over any sequence of login calls (saved token, password grant, failures, forced),
\* an authenticated client holds a bearer token, which its headers carry, and an
\* authenticated client never becomes unauthenticated.
C23_AuthenticatedHoldsToken ==
    /\ [](authenticated => (token # None /\ "Authorization" \in DOMAIN headers(LoginClient)))
    /\ [][authenticated => authenticated']_vars

\* login was called again on a client that a password grant had authenticated
C23_Witness ==
    LastLogin /\ err = "NameError" /\ authenticated /\ token \in AccessTokens

\* ---------------------------------------------------------------- the session key

\* the handshake frames the chat backend may send: a session key, a null key, an error
SessionFrames ==
    { LOGI \o Json([key |-> "k1"]), LOGI \o Json([key |-> None]),
      LOGI \o Json([error |-> TRUE]) }

NextSession ==
    \/ \E resp \in AccountResponses : start_chat(resp)
    \/ stop_chat
    \/ \E raw \in SessionFrames : Deliver(raw)
    \/ channels

InitSession == Construct({DefaultPrefix}, {1000}) /\ LoadCache({EmptyConfig}) /\ Serve(Backends)

SpecSession == InitSession /\ [][NextSession]_vars

\* reading channels raised ChatNotActive: no sequence was made and nothing was fetched
Refused == err' = "ChatNotActive" /\ gens' = gens /\ calls' = <<>>

\* reading channels returned a new sequence that has fetched nothing
Returned ==
    /\ err' = None /\ Len(gens') = Len(gens) + 1 /\ calls' = <<>>
    /\ LET g == gens'[Len(gens')]
       IN  g.kind = "channels" /\ ~g.started /\ g.fetches = 0 /\ g.yielded = <<>>

KeyOrder == <<Key("login"), Key("a@x"), Key("b@x")>>

Present(k) == config[k] # None

Held == SelectSeq(KeyOrder, Present)

\* what a thread assigns under a key: a generated Basic token, or a granted access token
Assigned(k) == IF k = Key("login") THEN {"basic"} ELSE AccessTokens

At(t, place) == updating[t].at = place

Goes(t, place) == updating' = [updating EXCEPT ![t].at = place]

\* self.__config[key] = value, outside the lock (__login_token, login)
SetKey(t, k, v) ==
    /\ At(t, "idle")
    /\ config' = [config EXCEPT ![k] = v]
    /\ updating' = [updating EXCEPT ![t].at = "acquire", ![t].set = <<k>>]
    /\ UNCHANGED <<handlerVars, threadVars, chatVars, opVars, pageVars,
                   authenticated, token, file, config_lock, writers, torn>>

\* __update_config as it would be without waiting for the lock
AcquireConfig_without_wait(t) ==
    /\ At(t, "acquire")
    /\ config_lock' = t
    /\ Goes(t, "open")
    /\ UNCHANGED <<handlerVars, threadVars, chatVars, loginVars, opVars, pageVars,
                   writers, torn>>

\* self.__config_lock.acquire()
AcquireConfig(t) ==
    /\ At(t, "acquire")
    /\ config_lock = 0
    /\ config_lock' = t
    /\ Goes(t, "open")
    /\ UNCHANGED <<handlerVars, threadVars, chatVars, loginVars, opVars, pageVars,
                   writers, torn>>

\* open(self.__cache_path, "w"): the file is truncated; json.dump starts on the dict,
\* taking its size and its keys as they are now
OpenCache(t) ==
    /\ At(t, "open")
    /\ writers' = writers \cup {t}
    /\ file' = EmptyConfig
    /\ torn' = TRUE
    /\ updating' = [updating EXCEPT ![t].at = "dump", ![t].size = Len(Held), ![t].todo = Held]
    /\ UNCHANGED <<handlerVars, threadVars, chatVars, opVars, pageVars,
                   authenticated, token, config, config_lock>>

\* one step of json.dump over the dict: a dict that has changed size since the dump began
\* raises RuntimeError, which closes the file and leaves __update_config with the lock
\* held; otherwise the next key is written with its value of now, or, with no key left,
\* the text is finished and the file closed
DumpNext(t) ==
    /\ At(t, "dump")
    /\ IF updating[t].size > 0 /\ Len(Held) # updating[t].size
       THEN /\ writers' = writers \ {t}
            /\ Goes(t, "failed")
            /\ UNCHANGED <<file, torn>>
       ELSE IF updating[t].todo # <<>>
       THEN /\ file' = [file EXCEPT ![Head(updating[t].todo)] = config[Head(updating[t].todo)]]
            /\ updating' = [updating EXCEPT ![t].todo = Tail(@)]
            /\ UNCHANGED <<writers, torn>>
       ELSE /\ torn' = FALSE
            /\ writers' = writers \ {t}
            /\ Goes(t, "release")
            /\ UNCHANGED file
    /\ UNCHANGED <<handlerVars, threadVars, chatVars, opVars, pageVars,
                   authenticated, token, config, config_lock>>

\* self.__config_lock.release()
ReleaseConfig(t) ==
    /\ At(t, "release")
    /\ config_lock' = 0
    /\ Goes(t, "done")
    /\ UNCHANGED <<handlerVars, threadVars, chatVars, loginVars, opVars, pageVars,
                   writers, torn>>

NextCache ==
    \E t \in Threads :
        \/ \E k \in ConfigKeys : \E v \in Assigned(k) : SetKey(t, k, v)
        \/ AcquireConfig(t)
        \/ OpenCache(t)
        \/ DumpNext(t)
        \/ ReleaseConfig(t)

InitCache == Construct({DefaultPrefix}, {1000}) /\ LoadCache({EmptyConfig}) /\ Serve({<<>>})

SpecCache == InitCache /\ [][NextCache]_vars

\* the thread has left its rewrite of the cache, by returning or by an exception
Finished(t) == At(t, "done") \/ At(t, "failed")

AllFinished == \A t \in Threads : Finished(t)

====
